---- MODULE Spec2Model ----
(***************************************************************************)
(* RTuinOS kernel (RTuinOS/code/RTOS/rtos.c): the scheduler state machine. *)
(*                                                                         *)
(* State: the system time, the active task, the lists of due and of        *)
(* suspended task IDs with their counts, and the dynamic fields of the     *)
(* task descriptors.  Operations: rtos_initRTOS (Init), the system timer   *)
(* ISR with onTimerTic, and the two suspend commands rtos_waitForEvent and *)
(* rtos_suspendTaskTillTime, each with the context switch macros that end  *)
(* it.  All three run with interrupts disabled and are atomic steps.       *)
(*                                                                         *)
(* Event vectors (uint16_t bit masks) are sets of bit numbers: | is \cup,  *)
(* & is \cap, "> 0" is "# {}".                                             *)
(***************************************************************************)
EXTENDS Integers, Sequences, FiniteSets, TLC

(***************************************************************************)
(* Configuration (rtos.config.h of the application) and model bounds.      *)
(***************************************************************************)
\* Number of tasks, idle excluded.
RTOS_NO_TASKS == 3

\* Number of priority classes; class RTOS_NO_PRIO_CLASSES-1 is the highest.
RTOS_NO_PRIO_CLASSES == 2

\* Slots per priority class in the list of due tasks.  The model reserves
\* one slot per task, so that no row of _dueTaskIdAryAry can overflow.
RTOS_MAX_NO_TASKS_IN_PRIO_CLASS == RTOS_NO_TASKS

\* The system time is an unsigned integer that wraps around after TimeCycle
\* tics (uintTime_t, 2^8 in rtos.h; the cycle is scaled down here).
TimeCycle == 4

TimeMax == TimeCycle - 1

\* The model stops the clock after MaxTics timer interrupts: one cycle of the
\* system time and two tics of the next.
MaxTics == TimeCycle + 2

\* The model follows the application for MaxCalls suspend commands.
MaxCalls == 3

\* The runs with mutex, semaphore and post stop the clock after MaxSyncTics
\* timer interrupts.
MaxSyncTics == 3

\* The tics a task has spent in a suspend command are counted up to SinceCap.
SinceCap == TimeCycle + 1

IDLE_TASK_ID == RTOS_NO_TASKS

\* The overflow interrupt enable bits of the timers 2 and 5.
TOIE2 == {"TOIE2"}

TOIE5 == {"TOIE5"}

RTOS_EVT_EVENT_00 == {0}

RTOS_EVT_ABSOLUTE_TIMER == {14}

RTOS_EVT_DELAY_TIMER == {15}

Tasks == 0 .. (RTOS_NO_TASKS - 1)

TaskIds == 0 .. RTOS_NO_TASKS

PrioClasses == 0 .. (RTOS_NO_PRIO_CLASSES - 1)

\* The event bits of an application that uses one mutex and one semaphore:
\* the mutexes take the lowest bits, the semaphores the next ones, the
\* bits behind them are ordinary, broadcasted events.
RTOS_EVT_MUTEX_00 == {0}

RTOS_EVT_SEMAPHORE_00 == {1}

RTOS_EVT_EVENT_02 == {2}

EventVecs ==
    SUBSET (RTOS_EVT_EVENT_00 \cup RTOS_EVT_SEMAPHORE_00 \cup RTOS_EVT_EVENT_02
               \cup RTOS_EVT_ABSOLUTE_TIMER \cup RTOS_EVT_DELAY_TIMER)

(***************************************************************************)
(* Inputs of the application: the static task settings written by setup()  *)
(* and the arguments of the suspend commands.                              *)
(***************************************************************************)
\* prioClass of the tasks: task 0 in class 0, the last task in the highest
\* class, the others in either.
PrioSettings ==
    {prio \in [Tasks -> PrioClasses] :
        /\ prio[0] = 0
        /\ RTOS_NO_TASKS > 1 => prio[RTOS_NO_TASKS - 1] = RTOS_NO_PRIO_CLASSES - 1}

\* timeDueAt of the tasks at start: all tasks at time 0, or task 0 at time 0
\* and the others one tic later.
InitDueSettings ==
    { [id \in Tasks |-> 0],
      [id \in Tasks |-> IF id = 0 THEN 0 ELSE 1] }

\* The calls of rtos_waitForEvent: <<eventMask, all, timeout>>.
WaitCalls ==
    { <<RTOS_EVT_DELAY_TIMER, FALSE, 0>>,
      <<RTOS_EVT_DELAY_TIMER, FALSE, TimeMax>>,
      <<RTOS_EVT_ABSOLUTE_TIMER \cup RTOS_EVT_DELAY_TIMER, FALSE, TimeMax>>,
      <<RTOS_EVT_EVENT_00 \cup RTOS_EVT_DELAY_TIMER, TRUE, 1>>,
      <<RTOS_EVT_EVENT_00, FALSE, 1>> }

\* The arguments of rtos_suspendTaskTillTime.
TillDeltas == {1, 2}

VARIABLES
    time,                \* _time
    activeTaskId,        \* _activeTaskId
    suspendedTaskId,     \* _suspendedTaskId
    dueTaskIdAryAry,     \* _dueTaskIdAryAry[prio][slot]
    noDueTasksAry,       \* _noDueTasksAry[prio]
    suspendedTaskIdAry,  \* _suspendedTaskIdAry[slot]
    noSuspendedTasks,    \* _noSuspendedTasks
    rtos_taskAry,        \* rtos_taskAry[id], the fields the scheduler uses
    adjacentLayout,      \* the build puts _noSuspendedTasks right behind
                         \* _suspendedTaskIdAry (declaration order)
    noTics,              \* history: number of timer interrupts served
    noCalls,             \* history: number of suspend commands executed
    since,               \* history: per task, timer tics since its command
    toDue,               \* history: per task, timer tics until the tic of
                         \* its absolute due time (Off: not followed)
    lastOp,              \* history: the operation that was executed last
    idxSuspAccess,       \* history: highest index used on _suspendedTaskIdAry
    cmd,                 \* history: per task, its last suspend command
    rel,                 \* history: per task, its release from that command
    ret,                 \* history: per task, the value the command returned
    mutexOwner,          \* the task that owns the mutex, NoOwner if it is free
    rtos_semaphoreAry,   \* the counter of the semaphore
    held,                \* history: per task, the mutex and the units of the
                         \* semaphore its commands returned and it did not
                         \* post since
    wokeUp,              \* history: per task, the tasks of higher priority
                         \* its post released and that did not suspend since
    lastPost,            \* history: the last call of rtos_setEvent
    cntOverrun,          \* per task, the task overruns the kernel has
                         \* counted: what rtos_getTaskOverrunCounter is to
                         \* report.  No statement of the kernel counts one.
    TIMSK2,              \* interrupt mask register of timer 2: the enabled
                         \* interrupts (TOIE2: the system timer tic)
    TIMSK5,              \* interrupt mask register of timer 5 (TOIE5: the
                         \* application interrupt 0)
    critDepth,           \* history: calls of rtos_enterCriticalSection
                         \* minus calls of rtos_leaveCriticalSection
    taskStack,           \* per task pStackArea[0 .. stackSize-1], stackSize,
                         \* taskFunction and stackPointer as rtos_initRTOS
                         \* leaves them; what the running tasks push and pop
                         \* later is not followed
    idxTaskInit,         \* rtos_initRTOS: the task its loop handles next,
                         \* RTOS_NO_TASKS + 1 when the function is through
    SREG_I,              \* the global interrupt enable flag of the CPU
    pcCmd                \* where the running task is in a suspend command
                         \* that is followed statement by statement; "task"
                         \* outside of such a command

vars == << time, activeTaskId, suspendedTaskId, dueTaskIdAryAry, noDueTasksAry,
           suspendedTaskIdAry, noSuspendedTasks, rtos_taskAry, adjacentLayout,
           noTics, noCalls, since, toDue, lastOp, idxSuspAccess, cmd, rel, ret,
           mutexOwner, rtos_semaphoreAry, held, wokeUp, lastPost, cntOverrun,
           TIMSK2, TIMSK5, critDepth, taskStack, idxTaskInit, SREG_I, pcCmd >>

Max(a, b) == IF a >= b THEN a ELSE b

\* No release recorded yet / no value returned yet.
NoRel == [released |-> FALSE, after |-> 0, toDue |-> 0, eventVec |-> {},
          order |-> 0]

\* toDue of a task whose due time is more than a time cycle away.
Off == TimeCycle + 1

\* toDue at the next timer tic (negative: the tic of the due time is over).
toDueTic(d) == IF d = Off \/ d - 1 < 0 - TimeCycle THEN Off ELSE d - 1

\* toDue after the due time has been moved on by delta.
toDueAdd(d, delta) == IF d = Off \/ d + delta > TimeCycle THEN Off ELSE d + delta

\* The place of a release in the order of all releases: the tic and the
\* position in the loop of that tic.
releaseOrder(tic, pos) == tic * (RTOS_NO_TASKS + 1) + pos

\* The mutex is free.
NoOwner == -1

\* The units of the semaphore at start.
SemaphoreCapacity == 1

NoPost == [poster |-> IDLE_TASK_ID, eventVec |-> {}, released |-> {}]

\* The mutex and the units of the semaphore that the return code of a
\* suspend command hands to task id.
heldOnReturn(h, tasks, id) ==
    IF id \in Tasks
    THEN [h EXCEPT ![id] =
            [mtx |-> @.mtx \/ RTOS_EVT_MUTEX_00 \subseteq tasks[id].postedEventVec,
             sem |-> IF RTOS_EVT_SEMAPHORE_00 \subseteq tasks[id].postedEventVec
                     THEN @.sem + 1 ELSE @.sem]]
    ELSE h

NoRet == [pending |-> TRUE, released |-> FALSE, given |-> FALSE, code |-> {}]

(***************************************************************************)
(* rtos_initRTOS: all tasks are suspended and wait for the absolute timer  *)
(* event; the idle task is active.  prioClass and timeDueAt are the        *)
(* settings of the application.  With round robin compiled in, the time   *)
(* slice timeRoundRobin is a setting as well and the counter cntRoundRobin *)
(* is cleared.                                                             *)
(***************************************************************************)
\* The time slice the application gives to every task, in timer tics.
TimeRoundRobin == 1

\* An initialization that leaves the delay counter loaded.
initTaskDelayLoaded(prio, due) ==
    [ prioClass       |-> prio,
      timeDueAt       |-> due,
      timeRoundRobin  |-> TimeRoundRobin,
      cntRoundRobin   |-> 0,
      cntDelay        |-> 1,
      postedEventVec  |-> {},
      eventMask       |-> RTOS_EVT_ABSOLUTE_TIMER,
      waitForAnyEvent |-> TRUE ]

initTask(prio, due) ==
    [ prioClass       |-> prio,
      timeDueAt       |-> due,
      timeRoundRobin  |-> TimeRoundRobin,
      cntRoundRobin   |-> 0,
      cntDelay        |-> 0,
      postedEventVec  |-> {},
      eventMask       |-> RTOS_EVT_ABSOLUTE_TIMER,
      waitForAnyEvent |-> TRUE ]

idleTask ==
    [ prioClass       |-> 0,
      timeDueAt       |-> 0,
      timeRoundRobin  |-> 0,
      cntRoundRobin   |-> 0,
      cntDelay        |-> 0,
      postedEventVec  |-> {},
      eventMask       |-> {},
      waitForAnyEvent |-> FALSE ]

(***************************************************************************)
(* prepareTaskStack: the initial context of a task is pushed onto its      *)
(* empty stack, the stack growing from the last byte of the area towards   *)
(* the first, and the rest of the area is filled with the pattern.  The    *)
(* area is a function on 0 .. stackSize-1, the stack pointer an index.     *)
(***************************************************************************)
UNUSED_STACK_PATTERN == 41

\* The model takes stack areas with up to MaxSpare bytes more than the
\* initial context needs.
MaxSpare == 2

\* The bytes in the order they are pushed: the guard program counter, the
\* program counter of the task function (LSB first), r0, the status
\* register, r1, r2..r23 and r26..r31.
initialContext(taskEntryPoint) ==
    << 0, 0, 0,
       taskEntryPoint % 256,
       (taskEntryPoint \div 256) % 256,
       (taskEntryPoint \div 65536) % 256,
       0, 128, 0 >>
    \o [r \in 1 .. 22 |-> 0]
    \o [r \in 1 .. 6 |-> 0]

StackSizes ==
    Len(initialContext(0)) .. (Len(initialContext(0)) + MaxSpare)

\* What the RAM of a stack area holds before rtos_initRTOS: one byte value
\* throughout.
RamFills == {0, 255}

\* taskFunction, the start address of the task code.
taskFunction(id) == 74565 + 2 * id

rawStack(id, stackSize, fill) ==
    [ area         |-> [i \in 0 .. (stackSize - 1) |-> fill],
      stackSize    |-> stackSize,
      taskFunction |-> taskFunction(id),
      stackPointer |-> 0 ]

\* A fill loop that stops one byte early: while(sp > pEmptyTaskStack).
prepareTaskStackOneLeft(st) ==
    LET ctx     == initialContext(st.taskFunction)
        top     == st.stackSize - 1
        retCode == top - Len(ctx)
    IN  [st EXCEPT
           !.area = [i \in DOMAIN st.area |->
                       IF i > retCode THEN ctx[top - i + 1]
                       ELSE IF i > 0 THEN UNUSED_STACK_PATTERN
                       ELSE st.area[i]],
           !.stackPointer = retCode]

\* sp is top - (number of bytes pushed); retCode is sp after the context
\* has been pushed; then while(sp >= pEmptyTaskStack) *sp-- = pattern.
prepareTaskStack(st) ==
    LET ctx     == initialContext(st.taskFunction)
        top     == st.stackSize - 1
        retCode == top - Len(ctx)
    IN  [st EXCEPT
           !.area = [i \in DOMAIN st.area |->
                       IF i > retCode THEN ctx[top - i + 1]
                       ELSE UNUSED_STACK_PATTERN],
           !.stackPointer = retCode]

Init ==
    /\ time = TimeMax
    /\ activeTaskId = IDLE_TASK_ID
    /\ suspendedTaskId = IDLE_TASK_ID
    /\ dueTaskIdAryAry = [p \in PrioClasses |->
                            [i \in 0 .. (RTOS_MAX_NO_TASKS_IN_PRIO_CLASS - 1) |-> 0]]
    /\ noDueTasksAry = [p \in PrioClasses |-> 0]
    /\ suspendedTaskIdAry = [i \in Tasks |-> i]
    /\ noSuspendedTasks = RTOS_NO_TASKS
    /\ \E prio \in PrioSettings, due \in InitDueSettings :
          /\ rtos_taskAry = [id \in TaskIds |->
                               IF id = IDLE_TASK_ID THEN idleTask
                               ELSE initTask(prio[id], due[id])]
          /\ cmd = [id \in Tasks |->
                      [kind |-> "start", eventMask |-> RTOS_EVT_ABSOLUTE_TIMER,
                       all |-> FALSE, timeout |-> 0, cntDelay |-> 0,
                       onTime |-> TRUE]]
          /\ toDue = [id \in Tasks |-> due[id] + 1]
    /\ adjacentLayout \in BOOLEAN
    /\ noTics = 0
    /\ noCalls = 0
    /\ since = [id \in Tasks |-> 0]
    /\ lastOp = "init"
    /\ idxSuspAccess = RTOS_NO_TASKS - 1
    /\ rel = [id \in Tasks |-> NoRel]
    /\ ret = [id \in Tasks |-> NoRet]
    /\ mutexOwner = NoOwner
    /\ rtos_semaphoreAry = SemaphoreCapacity
    /\ held = [id \in Tasks |-> [mtx |-> FALSE, sem |-> 0]]
    /\ wokeUp = [id \in Tasks |-> {}]
    /\ lastPost = NoPost
    /\ cntOverrun = [id \in Tasks |-> 0]
    /\ TIMSK2 = TOIE2
    /\ TIMSK5 = TOIE5
    /\ critDepth = 0
    /\ taskStack = [id \in Tasks |->
                      prepareTaskStack(rawStack(id, Len(initialContext(0)), 0))]
    /\ idxTaskInit = RTOS_NO_TASKS + 1
    /\ SREG_I = TRUE
    /\ pcCmd = "task"

(***************************************************************************)
(* rtos_initRTOS step by step: the state when setup() has returned, one    *)
(* step for each pass of the loop over the tasks and one for the rest of   *)
(* the function.  The statics of the kernel have their initial values.     *)
(***************************************************************************)
\* A task descriptor as setup() leaves it.
setupTask(prio, due) ==
    [ prioClass       |-> prio,
      timeDueAt       |-> due,
      timeRoundRobin  |-> TimeRoundRobin,
      cntRoundRobin   |-> 0,
      cntDelay        |-> 0,
      postedEventVec  |-> {},
      eventMask       |-> {},
      waitForAnyEvent |-> FALSE ]

InitSetup ==
    /\ time = TimeMax
    /\ activeTaskId = IDLE_TASK_ID
    /\ suspendedTaskId = 0
    /\ dueTaskIdAryAry = [p \in PrioClasses |->
                            [i \in 0 .. (RTOS_MAX_NO_TASKS_IN_PRIO_CLASS - 1) |-> 0]]
    /\ noDueTasksAry = [p \in PrioClasses |-> 0]
    /\ suspendedTaskIdAry = [i \in Tasks |-> 0]
    /\ noSuspendedTasks = 0
    /\ \E prio \in PrioSettings, due \in InitDueSettings :
          /\ rtos_taskAry = [id \in TaskIds |->
                               IF id = IDLE_TASK_ID THEN idleTask
                               ELSE setupTask(prio[id], due[id])]
          /\ cmd = [id \in Tasks |->
                      [kind |-> "start", eventMask |-> RTOS_EVT_ABSOLUTE_TIMER,
                       all |-> FALSE, timeout |-> 0, cntDelay |-> 0,
                       onTime |-> TRUE]]
          /\ toDue = [id \in Tasks |-> due[id] + 1]
    /\ adjacentLayout \in BOOLEAN
    /\ noTics = 0
    /\ noCalls = 0
    /\ since = [id \in Tasks |-> 0]
    /\ lastOp = "setup"
    /\ idxSuspAccess = 0
    /\ rel = [id \in Tasks |-> NoRel]
    /\ ret = [id \in Tasks |-> NoRet]
    /\ mutexOwner = NoOwner
    /\ rtos_semaphoreAry = SemaphoreCapacity
    /\ held = [id \in Tasks |-> [mtx |-> FALSE, sem |-> 0]]
    /\ wokeUp = [id \in Tasks |-> {}]
    /\ lastPost = NoPost
    /\ cntOverrun = [id \in Tasks |-> 0]
    /\ TIMSK2 = {}
    /\ TIMSK5 = TOIE5
    /\ critDepth = 0
    /\ \E size \in [Tasks -> StackSizes], fill \in RamFills :
          taskStack = [id \in Tasks |-> rawStack(id, size[id], fill)]
    /\ idxTaskInit = 0
    /\ SREG_I = TRUE
    /\ pcCmd = "task"

\* One pass of the loop over the tasks.
InitTaskLoop ==
    /\ idxTaskInit < RTOS_NO_TASKS
    /\ idxTaskInit' = idxTaskInit + 1
    /\ taskStack' = [taskStack EXCEPT
                        ![idxTaskInit] = prepareTaskStack(taskStack[idxTaskInit])]
    /\ rtos_taskAry' = [rtos_taskAry EXCEPT
                           ![idxTaskInit] = initTask(@.prioClass, @.timeDueAt)]
    /\ suspendedTaskIdAry' = [suspendedTaskIdAry EXCEPT ![idxTaskInit] = idxTaskInit]
    /\ idxSuspAccess' = Max(idxSuspAccess, idxTaskInit)
    /\ lastOp' = "prepare"
    /\ UNCHANGED << time, activeTaskId, suspendedTaskId, dueTaskIdAryAry,
                    noDueTasksAry, noSuspendedTasks, adjacentLayout, noTics,
                    noCalls, since, toDue, cmd, rel, ret, mutexOwner,
                    rtos_semaphoreAry, held, wokeUp, lastPost, cntOverrun,
                    TIMSK2, TIMSK5, critDepth, SREG_I, pcCmd >>

\* The statements behind the loop, up to rtos_enableIRQTimerTic.
InitFinish ==
    /\ idxTaskInit = RTOS_NO_TASKS
    /\ idxTaskInit' = RTOS_NO_TASKS + 1
    /\ noSuspendedTasks' = RTOS_NO_TASKS
    /\ rtos_taskAry' = [rtos_taskAry EXCEPT ![IDLE_TASK_ID] = idleTask]
    /\ noDueTasksAry' = [p \in PrioClasses |-> 0]
    /\ activeTaskId' = IDLE_TASK_ID
    /\ suspendedTaskId' = IDLE_TASK_ID
    /\ TIMSK2' = TIMSK2 \cup TOIE2
    /\ lastOp' = "init"
    /\ UNCHANGED << time, dueTaskIdAryAry, suspendedTaskIdAry, adjacentLayout,
                    noTics, noCalls, since, toDue, idxSuspAccess, cmd, rel, ret,
                    mutexOwner, rtos_semaphoreAry, held, wokeUp, lastPost,
                    cntOverrun, TIMSK5, critDepth, taskStack, SREG_I, pcCmd >>

NextInit ==
    \/ InitTaskLoop
    \/ InitFinish

SpecInit == InitSetup /\ [][NextInit]_vars

(***************************************************************************)
(* onTimerTic, the loop over the suspended tasks.                          *)
(***************************************************************************)
\* Timer events that signal the elapsed delay with bit 0 instead of bit 15.
timerEventsBit0(pT, t) ==
    LET postedAbs == IF t = pT.timeDueAt
                     THEN pT.postedEventVec \cup RTOS_EVT_ABSOLUTE_TIMER
                     ELSE pT.postedEventVec
        cnt       == IF pT.cntDelay > 0 THEN pT.cntDelay - 1 ELSE pT.cntDelay
        posted    == IF pT.cntDelay > 0 /\ cnt = 0
                     THEN postedAbs \cup RTOS_EVT_EVENT_00
                     ELSE postedAbs
    IN  [pT EXCEPT !.postedEventVec = posted, !.cntDelay = cnt]

\* The timer events of one suspended task in the tic that made the time t.
timerEvents(pT, t) ==
    LET postedAbs == IF t = pT.timeDueAt
                     THEN pT.postedEventVec \cup RTOS_EVT_ABSOLUTE_TIMER
                     ELSE pT.postedEventVec
        cnt       == IF pT.cntDelay > 0 THEN pT.cntDelay - 1 ELSE pT.cntDelay
        posted    == IF pT.cntDelay > 0 /\ cnt = 0
                     THEN postedAbs \cup RTOS_EVT_DELAY_TIMER
                     ELSE postedAbs
    IN  [pT EXCEPT !.postedEventVec = posted, !.cntDelay = cnt]

\* A test that takes every task as waiting for any event of its mask.
isReleasedOnAnyEvent(pT) ==
    pT.postedEventVec \cap pT.eventMask # {}

\* Does the task become due?
isReleased(pT) ==
    LET eventVec == pT.postedEventVec \cap pT.eventMask
    IN  \/ (pT.waitForAnyEvent /\ eventVec # {})
        \/ (~pT.waitForAnyEvent /\ eventVec = pT.eventMask)

\* The list of suspended tasks after the entry at idxSuspTask has been taken
\* out; noSusp is the count already decremented.  The loop over u copies
\* the same element each time.
removeSuspended(susp, idxSuspTask, noSusp) ==
    IF idxSuspTask < noSusp
    THEN [susp EXCEPT ![idxSuspTask] = susp[idxSuspTask + 1]]
    ELSE susp

\* A list of due tasks that takes the new task at its head.
prependDue(due, noDue, prio, id) ==
    [due EXCEPT ![prio] =
        [i \in DOMAIN due[prio] |-> IF i = 0 THEN id ELSE due[prio][i - 1]]]

\* The list of due tasks of class prio with id put at its end.
appendDue(due, noDue, prio, id) ==
    [due EXCEPT ![prio][noDue[prio]] = id]

RECURSIVE inspectSuspended(_, _)
inspectSuspended(idxSuspTask, s) ==
    IF idxSuspTask >= s.noSusp THEN s
    ELSE
      LET id   == s.susp[idxSuspTask]
          pT   == timerEvents(s.tasks[id], s.time)
          prio == pT.prioClass
          s1   == [s EXCEPT !.tasks = [s.tasks EXCEPT ![id] = pT],
                            !.inspected = s.inspected \cup {id},
                            !.maxIdx = Max(s.maxIdx, idxSuspTask)]
          s2   == IF isReleased(pT)
                  THEN [s1 EXCEPT
                          !.due    = appendDue(s.due, s.noDue, prio, id),
                          !.noDue  = [s.noDue EXCEPT ![prio] = s.noDue[prio] + 1],
                          !.noSusp = s.noSusp - 1,
                          !.susp   = removeSuspended(s.susp, idxSuspTask, s.noSusp - 1),
                          !.isNew  = TRUE,
                          !.order  = s.order + 1,
                          !.rel    = IF id \in Tasks /\ ~s.rel[id].released
                                     THEN [s.rel EXCEPT ![id] =
                                             [released |-> TRUE, after |-> s.since[id],
                                              toDue |-> s.toDue[id],
                                              eventVec |-> pT.postedEventVec \cap pT.eventMask,
                                              order |-> s.order]]
                                     ELSE s.rel]
                  ELSE s1
      IN  inspectSuspended(idxSuspTask + 1, s2)

(***************************************************************************)
(* The search for the task to return to: the first entry of the highest    *)
(* non-empty priority class; NoClass if all classes are empty.             *)
(***************************************************************************)
NoClass == -1

\* A search that starts at the lowest class instead.
lowestDueClass(noDue) ==
    IF \E p \in PrioClasses : noDue[p] > 0
    THEN CHOOSE p \in PrioClasses :
            /\ noDue[p] > 0
            /\ \A q \in PrioClasses : noDue[q] > 0 => q >= p
    ELSE NoClass

highestDueClass(noDue) ==
    IF \E p \in PrioClasses : noDue[p] > 0
    THEN CHOOSE p \in PrioClasses :
            /\ noDue[p] > 0
            /\ \A q \in PrioClasses : noDue[q] > 0 => q <= p
    ELSE NoClass

(***************************************************************************)
(* SWITCH_CONTEXT and PUSH_RET_CODE_OF_CONTEXT_SWITCH for the new active   *)
(* task: if its vector of posted events is not empty, the vector is reset  *)
(* and pushed as the return code of the suspend command the task pauses in.*)
(***************************************************************************)
\* A return that leaves the vector of posted events as it is.
pushRetCodeTasksNoReset(tasks, id) == tasks

pushRetCodeTasks(tasks, id) ==
    IF tasks[id].postedEventVec # {}
    THEN [tasks EXCEPT ![id].postedEventVec = {}]
    ELSE tasks

pushRetCodeRet(tasks, id, r, released) ==
    IF id \in Tasks
    THEN IF r[id].pending
         THEN [r EXCEPT ![id] = [pending  |-> FALSE,
                                 released |-> released[id].released,
                                 given    |-> tasks[id].postedEventVec # {},
                                 code     |-> tasks[id].postedEventVec]]
         ELSE r
    ELSE r

(***************************************************************************)
(* ISR(RTOS_ISR_SYSTEM_TIMER_TIC): onTimerTic and, if it reports a new     *)
(* active task, the context switch.                                        *)
(***************************************************************************)
(***************************************************************************)
(* SWITCH_CONTEXT.  stackPointer is the field of that name of all the task *)
(* descriptors and SP the stack pointer of the CPU.  The saved stack       *)
(* pointer of the task _activeTaskId is read first, then SP is exchanged,  *)
(* and the old SP goes to the descriptor of the task _suspendedTaskId.     *)
(***************************************************************************)
SWITCH_CONTEXT(stackPointer, SP, active, suspended) ==
    LET tmpVarCToAsm_u16 == stackPointer[active]
        tmpVarAsmToC_u16 == SP
    IN  [ SP           |-> tmpVarCToAsm_u16,
          stackPointer |-> [stackPointer EXCEPT ![suspended] = tmpVarAsmToC_u16] ]

\* A timer tic that leaves the system time as it is.
clockTimeKept(t) == t

\* ++ _time: the counter is of type uintTime_t, "cyclic overrun is intended".
clockTime(t) == (t + 1) % TimeCycle

\* A search that reports a switch when the task found is the task that was
\* active already.
ticResultSameTask(s, active, suspended) ==
    LET idxPrio == highestDueClass(s.noDue)
        found   == s.isNew /\ idxPrio # NoClass
    IN  [ s EXCEPT !.isNew = IF found
                             THEN s.due[idxPrio][0] = active
                             ELSE s.isNew ]
        @@ [ active    |-> IF found THEN s.due[idxPrio][0] ELSE active,
             suspended |-> IF found THEN active ELSE suspended ]

\* A search that records the task to suspend before it has found a task to
\* switch to.
ticResultEarlyRecord(s, active, suspended) ==
    LET idxPrio == highestDueClass(s.noDue)
        found   == s.isNew /\ idxPrio # NoClass
    IN  [ s EXCEPT !.isNew = IF found
                             THEN s.due[idxPrio][0] # active
                             ELSE s.isNew ]
        @@ [ active    |-> IF found THEN s.due[idxPrio][0] ELSE active,
             suspended |-> active ]

\* if(isNewActiveTask): the search for the task to return to, and whether
\* it is another one than the interrupted task.
ticResult(s, active, suspended) ==
    LET idxPrio == highestDueClass(s.noDue)
        found   == s.isNew /\ idxPrio # NoClass
    IN  [ s EXCEPT !.isNew = IF found
                             THEN s.due[idxPrio][0] # active
                             ELSE s.isNew ]
        @@ [ active    |-> IF found THEN s.due[idxPrio][0] ELSE active,
             suspended |-> IF found THEN active ELSE suspended ]

onTimerTic ==
    LET s0 == [ time   |-> clockTime(time),
                tasks  |-> rtos_taskAry,
                susp   |-> suspendedTaskIdAry,
                noSusp |-> noSuspendedTasks,
                due    |-> dueTaskIdAryAry,
                noDue  |-> noDueTasksAry,
                isNew  |-> FALSE,
                rel    |-> rel,
                since  |-> [id \in Tasks |-> IF since[id] < SinceCap
                                             THEN since[id] + 1 ELSE since[id]],
                toDue  |-> [id \in Tasks |-> toDueTic(toDue[id])],
                inspected |-> {},
                order  |-> releaseOrder(noTics + 1, 0),
                maxIdx |-> idxSuspAccess ]
    IN  ticResult(inspectSuspended(0, s0), activeTaskId, suspendedTaskId)

TimerTic ==
    /\ SREG_I
    /\ TOIE2 \subseteq TIMSK2
    /\ noTics < MaxTics
    /\ noTics' = noTics + 1
    /\ LET r == onTimerTic
       IN  /\ time' = r.time
           /\ activeTaskId' = r.active
           /\ suspendedTaskId' = r.suspended
           /\ dueTaskIdAryAry' = r.due
           /\ noDueTasksAry' = r.noDue
           /\ suspendedTaskIdAry' = r.susp
           /\ noSuspendedTasks' = r.noSusp
           /\ rel' = r.rel
           /\ idxSuspAccess' = r.maxIdx
           /\ IF r.isNew
              THEN /\ rtos_taskAry' = pushRetCodeTasks(r.tasks, r.active)
                   /\ ret' = pushRetCodeRet(r.tasks, r.active, ret, r.rel)
                   /\ held' = heldOnReturn(held, r.tasks, r.active)
              ELSE /\ rtos_taskAry' = r.tasks
                   /\ ret' = ret
                   /\ held' = held
    /\ since' = onTimerTic.since
    /\ toDue' = onTimerTic.toDue
    /\ lastOp' = "tic"
    /\ UNCHANGED << adjacentLayout, cmd, noCalls, mutexOwner, rtos_semaphoreAry,
                    wokeUp, lastPost, cntOverrun,
                    TIMSK2, TIMSK5, critDepth, taskStack, idxTaskInit,
                    SREG_I, pcCmd >>

(***************************************************************************)
(* The suspend commands.                                                   *)
(***************************************************************************)
\* Take the active task out of the list of due tasks of its class: the
\* count is decremented (uint8_t) and the entries move one slot down.
takeOutNoDue(noDue, prio) ==
    [noDue EXCEPT ![prio] = (noDue[prio] - 1) % 256]

takeOutDue(due, noDue, prio) ==
    LET noDueNow == (noDue[prio] - 1) % 256
    IN  [due EXCEPT ![prio] =
            [idxTask \in DOMAIN due[prio] |->
                IF idxTask < noDueNow /\ idxTask + 1 \in DOMAIN due[prio]
                THEN due[prio][idxTask + 1]
                ELSE due[prio][idxTask]]]

\* _suspendedTaskIdAry[++_noSuspendedTasks] = _activeTaskId: the slot
\* written is the one behind the incremented count.  A store behind the
\* end of the array either leaves the kernel's data alone or, if
\* _noSuspendedTasks is the next byte in memory, overwrites the count.
putSuspendedIdx(noSusp) == noSusp + 1

putSuspendedAry(susp, noSusp, id) ==
    IF putSuspendedIdx(noSusp) \in DOMAIN susp
    THEN [susp EXCEPT ![putSuspendedIdx(noSusp)] = id]
    ELSE susp

putSuspendedNo(susp, noSusp, id, adjacent) ==
    IF adjacent /\ putSuspendedIdx(noSusp) = RTOS_NO_TASKS
    THEN id
    ELSE (noSusp + 1) % 256

\* A selection that takes the last entry of the class, not the first.
selectActiveLast(due, noDue) ==
    IF highestDueClass(noDue) # NoClass
    THEN due[highestDueClass(noDue)][noDue[highestDueClass(noDue)] - 1]
    ELSE IDLE_TASK_ID

\* The task to return to: idle is the fallback.
selectActive(due, noDue) ==
    IF highestDueClass(noDue) # NoClass
    THEN due[highestDueClass(noDue)][0]
    ELSE IDLE_TASK_ID

\* if((uintTime_t)(timeout+1) != 0) ++timeout;
delayCount(timeout) ==
    IF (timeout + 1) % TimeCycle # 0 THEN timeout + 1 ELSE timeout

\* A wait service that adds the delay timer event to the mask of a call
\* with a timeout.
eventMaskWithTimeout(eventMask, timeout) ==
    IF timeout > 0 THEN eventMask \cup RTOS_EVT_DELAY_TIMER ELSE eventMask

\* pT->eventMask = eventMask: the mask is stored as the caller gives it.
eventMaskStored(eventMask, timeout) == eventMask

\* The part the two commands share: lists, context switch, history.
suspendActive(pT, command) ==
    LET prio  == pT.prioClass
        due1  == takeOutDue(dueTaskIdAryAry, noDueTasksAry, prio)
        noDue == takeOutNoDue(noDueTasksAry, prio)
        tasks == [rtos_taskAry EXCEPT ![activeTaskId] = pT]
        next  == selectActive(due1, noDue)
        ret1  == [ret EXCEPT ![activeTaskId] = NoRet]
    IN  /\ noCalls < MaxCalls
        /\ noCalls' = noCalls + 1
        /\ dueTaskIdAryAry' = due1
        /\ noDueTasksAry' = noDue
        /\ suspendedTaskIdAry' =
              putSuspendedAry(suspendedTaskIdAry, noSuspendedTasks, activeTaskId)
        /\ noSuspendedTasks' =
              putSuspendedNo(suspendedTaskIdAry, noSuspendedTasks, activeTaskId,
                             adjacentLayout)
        /\ idxSuspAccess' = Max(idxSuspAccess, putSuspendedIdx(noSuspendedTasks))
        /\ suspendedTaskId' = activeTaskId
        /\ activeTaskId' = next
        /\ rtos_taskAry' = pushRetCodeTasks(tasks, next)
        /\ rel' = [rel EXCEPT ![activeTaskId] = NoRel]
        /\ ret' = pushRetCodeRet(tasks, next, ret1, rel')
        /\ cmd' = [cmd EXCEPT ![activeTaskId] = command]
        /\ since' = [since EXCEPT ![activeTaskId] = 0]
        /\ held' = heldOnReturn(held, tasks, next)
        /\ wokeUp' = [id \in Tasks |-> wokeUp[id] \ {activeTaskId}]
        /\ UNCHANGED << time, adjacentLayout, noTics, lastPost, cntOverrun,
                    TIMSK2, TIMSK5, critDepth, taskStack, idxTaskInit,
                    SREG_I, pcCmd >>

\* rtos_suspendTaskTillTime(deltaTimeTillRelease), called by the active task.
SuspendTaskTillTime(deltaTimeTillRelease) ==
    /\ activeTaskId # IDLE_TASK_ID
    /\ LET pT0 == rtos_taskAry[activeTaskId]
           pT  == [pT0 EXCEPT
                     !.timeDueAt = (pT0.timeDueAt + deltaTimeTillRelease) % TimeCycle,
                     !.eventMask = RTOS_EVT_ABSOLUTE_TIMER,
                     !.waitForAnyEvent = TRUE]
           d   == toDueAdd(toDue[activeTaskId], deltaTimeTillRelease)
       IN  /\ suspendActive(pT,
                 [kind |-> "till", eventMask |-> RTOS_EVT_ABSOLUTE_TIMER,
                  all |-> FALSE, timeout |-> deltaTimeTillRelease,
                  cntDelay |-> pT.cntDelay,
                  onTime |-> cmd[activeTaskId].onTime /\ d \in 1 .. TimeMax])
           /\ toDue' = [toDue EXCEPT ![activeTaskId] = d]
    /\ lastOp' = "till"
    /\ UNCHANGED << mutexOwner, rtos_semaphoreAry >>

\* rtos_waitForEvent(eventMask, all, timeout), called by the active task.
WaitForEvent(eventMask, all, timeout) ==
    /\ activeTaskId # IDLE_TASK_ID
    /\ LET pT0 == rtos_taskAry[activeTaskId]
           pT  == [pT0 EXCEPT
                     !.cntDelay = delayCount(timeout),
                     !.eventMask = eventMaskStored(eventMask, timeout),
                     !.waitForAnyEvent = ~all]
       IN  suspendActive(pT,
              [kind |-> "wait", eventMask |-> eventMask,
               all |-> all, timeout |-> timeout, cntDelay |-> pT.cntDelay,
               onTime |-> FALSE])
    /\ UNCHANGED << toDue, mutexOwner, rtos_semaphoreAry >>
    /\ lastOp' = "wait"

Next ==
    \/ TimerTic
    \/ \E deltaTimeTillRelease \in TillDeltas :
          SuspendTaskTillTime(deltaTimeTillRelease)
    \/ \E call \in WaitCalls : WaitForEvent(call[1], call[2], call[3])

Spec == Init /\ [][Next]_vars

(***************************************************************************)
(* A suspend command called by the idle task.  The kernel does not look at *)
(* _activeTaskId before it executes the command ("we could double-check    *)
(* _activeTaskId for the idle task ID ... all implementation rates         *)
(* performance higher than failure tolerance").  Idle is active when all   *)
(* lists of due tasks are empty: the count of the class of the idle        *)
(* descriptor wraps around to 255 and the loop that closes the gap copies  *)
(* 255 bytes, through the rows of _dueTaskIdAryAry and on behind the       *)
(* array.  The last slot receives the byte behind the array, which is any  *)
(* value; the model follows such a run no further.                         *)
(***************************************************************************)
\* The slots of _dueTaskIdAryAry in the order of their addresses.
dueSlotAddr(p, i) == p * RTOS_MAX_NO_TASKS_IN_PRIO_CLASS + i

\* _dueTaskIdAryAry[prio][idxTask] = _dueTaskIdAryAry[prio][idxTask+1] for
\* idxTask < noDueNow, the index not held inside the row.
copyDueBeyondRow(due, prio, noDueNow, behind) ==
    [p \in PrioClasses |->
        [i \in 0 .. (RTOS_MAX_NO_TASKS_IN_PRIO_CLASS - 1) |->
            IF /\ dueSlotAddr(p, i) >= dueSlotAddr(prio, 0)
               /\ dueSlotAddr(p, i) < dueSlotAddr(prio, 0) + noDueNow
            THEN IF i + 1 < RTOS_MAX_NO_TASKS_IN_PRIO_CLASS
                 THEN due[p][i + 1]
                 ELSE IF p + 1 \in PrioClasses THEN due[p + 1][0] ELSE behind
            ELSE due[p][i]]]

\* The part the two commands share when idle calls them.
suspendIdle(pT, behind) ==
    LET prio  == pT.prioClass
        noDue == takeOutNoDue(noDueTasksAry, prio)
        due1  == IF noDue[prio] < RTOS_MAX_NO_TASKS_IN_PRIO_CLASS
                 THEN takeOutDue(dueTaskIdAryAry, noDueTasksAry, prio)
                 ELSE copyDueBeyondRow(dueTaskIdAryAry, prio, noDue[prio], behind)
        tasks == [rtos_taskAry EXCEPT ![IDLE_TASK_ID] = pT]
        next  == selectActive(due1, noDue)
    IN  /\ activeTaskId = IDLE_TASK_ID
        /\ noCalls < MaxCalls
        /\ noCalls' = MaxCalls
        /\ noTics' = MaxTics
        /\ dueTaskIdAryAry' = due1
        /\ noDueTasksAry' = noDue
        /\ suspendedTaskIdAry' =
              putSuspendedAry(suspendedTaskIdAry, noSuspendedTasks, IDLE_TASK_ID)
        /\ noSuspendedTasks' =
              putSuspendedNo(suspendedTaskIdAry, noSuspendedTasks, IDLE_TASK_ID,
                             adjacentLayout)
        /\ idxSuspAccess' = Max(idxSuspAccess, putSuspendedIdx(noSuspendedTasks))
        /\ suspendedTaskId' = IDLE_TASK_ID
        /\ activeTaskId' = next
        /\ rtos_taskAry' = pushRetCodeTasks(tasks, next)
        /\ ret' = pushRetCodeRet(tasks, next, ret, rel)
        /\ held' = heldOnReturn(held, tasks, next)
        /\ UNCHANGED << time, adjacentLayout, since, toDue, cmd, rel, mutexOwner,
                        rtos_semaphoreAry, wokeUp, lastPost, cntOverrun,
                    TIMSK2, TIMSK5, critDepth, taskStack, idxTaskInit,
                    SREG_I, pcCmd >>

\* rtos_suspendTaskTillTime(deltaTimeTillRelease), called by the idle task.
IdleSuspendTaskTillTime(deltaTimeTillRelease, behind) ==
    /\ LET pT0 == rtos_taskAry[IDLE_TASK_ID]
       IN  suspendIdle([pT0 EXCEPT
                          !.timeDueAt = (pT0.timeDueAt + deltaTimeTillRelease) % TimeCycle,
                          !.eventMask = RTOS_EVT_ABSOLUTE_TIMER,
                          !.waitForAnyEvent = TRUE],
                       behind)
    /\ lastOp' = "till"

\* rtos_waitForEvent(eventMask, all, timeout), called by the idle task.
IdleWaitForEvent(eventMask, all, timeout, behind) ==
    /\ LET pT0 == rtos_taskAry[IDLE_TASK_ID]
       IN  suspendIdle([pT0 EXCEPT
                          !.cntDelay = delayCount(timeout),
                          !.eventMask = eventMaskStored(eventMask, timeout),
                          !.waitForAnyEvent = ~all],
                       behind)
    /\ lastOp' = "wait"

(***************************************************************************)
(* Mutexes, semaphores and rtos_setEvent.  The kernel file at hand has     *)
(* neither; the applications call them.  What follows is their specified   *)
(* behaviour on top of the kernel's lists: the acquisition of mutex and    *)
(* semaphore in the wait service, and the post service.                    *)
(***************************************************************************)
\* The calls of rtos_waitForEvent that ask for mutex, semaphore or the
\* broadcasted event: <<eventMask, all, timeout>>.
SyncWaitCalls ==
    { <<RTOS_EVT_MUTEX_00, FALSE, 0>>,
      <<RTOS_EVT_SEMAPHORE_00, FALSE, 0>>,
      <<RTOS_EVT_EVENT_02, FALSE, 0>>,
      <<RTOS_EVT_MUTEX_00 \cup RTOS_EVT_SEMAPHORE_00, TRUE, 0>> }

\* The arguments of rtos_setEvent.
PostVecs == { RTOS_EVT_MUTEX_00, RTOS_EVT_SEMAPHORE_00, RTOS_EVT_EVENT_02 }

\* The slots of the suspended tasks that wait for a mutex or semaphore bit
\* and did not get it yet.
waiters(tasks, susp, noSusp, bit) ==
    {i \in DOMAIN susp :
        /\ i < noSusp
        /\ bit \subseteq tasks[susp[i]].eventMask
        /\ ~(bit \subseteq tasks[susp[i]].postedEventVec)}

\* The waiter that gets the bit: the oldest one of the highest priority
\* class present among the waiters.
firstWaiter(tasks, susp, W) ==
    CHOOSE i \in W :
       \A j \in W :
          \/ tasks[susp[j]].prioClass < tasks[susp[i]].prioClass
          \/ (tasks[susp[j]].prioClass = tasks[susp[i]].prioClass /\ i <= j)

\* The post service, step 1: the bits of eventVec are put into the vectors
\* of posted events.  A mutex or semaphore bit goes to one waiter only; if
\* nobody waits the mutex becomes free and the semaphore is counted up.  A
\* mutex posted by a task that does not own it is ignored.
postEvents(tasks, susp, noSusp, eventVec, caller, owner, sem) ==
    LET isMtx  == RTOS_EVT_MUTEX_00 \subseteq eventVec /\ owner = caller
        Wm     == waiters(tasks, susp, noSusp, RTOS_EVT_MUTEX_00)
        tasks1 == IF isMtx /\ Wm # {}
                  THEN [tasks EXCEPT ![susp[firstWaiter(tasks, susp, Wm)]].postedEventVec
                                         = @ \cup RTOS_EVT_MUTEX_00]
                  ELSE tasks
        owner1 == IF isMtx
                  THEN IF Wm # {} THEN susp[firstWaiter(tasks, susp, Wm)] ELSE NoOwner
                  ELSE owner
        isSem  == RTOS_EVT_SEMAPHORE_00 \subseteq eventVec
        Ws     == waiters(tasks1, susp, noSusp, RTOS_EVT_SEMAPHORE_00)
        tasks2 == IF isSem /\ Ws # {}
                  THEN [tasks1 EXCEPT ![susp[firstWaiter(tasks1, susp, Ws)]].postedEventVec
                                         = @ \cup RTOS_EVT_SEMAPHORE_00]
                  ELSE tasks1
        sem1   == IF isSem /\ Ws = {} THEN (sem + 1) % 256 ELSE sem
        bcast  == eventVec \cap RTOS_EVT_EVENT_02
        tasks3 == [id \in DOMAIN tasks2 |->
                     IF \E i \in DOMAIN susp : i < noSusp /\ susp[i] = id
                     THEN [tasks2[id] EXCEPT !.postedEventVec = @ \cup bcast]
                     ELSE tasks2[id]]
    IN  [tasks |-> tasks3, owner |-> owner1, sem |-> sem1]

\* The post service, steps 2 and 3: the releasable tasks leave the list of
\* suspended tasks and are appended to the list of due tasks of their class.
RECURSIVE releaseSuspended(_, _)
releaseSuspended(idxSuspTask, s) ==
    IF idxSuspTask >= s.noSusp \/ idxSuspTask \notin DOMAIN s.susp THEN s
    ELSE
      LET id   == s.susp[idxSuspTask]
          pT   == s.tasks[id]
          prio == pT.prioClass
      IN  IF isReleased(pT)
          THEN releaseSuspended(idxSuspTask,
                 [s EXCEPT
                    !.due      = appendDue(s.due, s.noDue, prio, id),
                    !.noDue    = [s.noDue EXCEPT ![prio] = s.noDue[prio] + 1],
                    !.noSusp   = s.noSusp - 1,
                    !.susp     = [i \in DOMAIN s.susp |->
                                    IF i >= idxSuspTask /\ i + 1 \in DOMAIN s.susp
                                    THEN s.susp[i + 1] ELSE s.susp[i]],
                    !.released = s.released \cup {id},
                    !.order    = s.order + 1,
                    !.rel      = IF ~s.rel[id].released
                                 THEN [s.rel EXCEPT ![id] =
                                         [released |-> TRUE, after |-> since[id],
                                          toDue |-> toDue[id],
                                          eventVec |-> pT.postedEventVec \cap pT.eventMask,
                                          order |-> s.order]]
                                 ELSE s.rel])
          ELSE releaseSuspended(idxSuspTask + 1, s)

\* rtos_setEvent(eventVec), called by the active task.  A task posts the
\* semaphore only if it got a unit of it before.
SetEvent(eventVec) ==
    /\ activeTaskId \in Tasks
    /\ noCalls < MaxCalls
    /\ noCalls' = noCalls + 1
    /\ RTOS_EVT_SEMAPHORE_00 \subseteq eventVec => held[activeTaskId].sem > 0
    /\ LET p     == postEvents(rtos_taskAry, suspendedTaskIdAry, noSuspendedTasks,
                               eventVec, activeTaskId, mutexOwner, rtos_semaphoreAry)
           s     == releaseSuspended(0,
                       [ tasks    |-> p.tasks,
                         susp     |-> suspendedTaskIdAry,
                         noSusp   |-> noSuspendedTasks,
                         due      |-> dueTaskIdAryAry,
                         noDue    |-> noDueTasksAry,
                         rel      |-> rel,
                         released |-> {},
                         order    |-> releaseOrder(noTics, RTOS_NO_TASKS) ])
           next  == selectActive(s.due, s.noDue)
           isNew == next # activeTaskId
           held1 == [held EXCEPT ![activeTaskId] =
                       [mtx |-> IF RTOS_EVT_MUTEX_00 \subseteq eventVec
                                THEN FALSE ELSE @.mtx,
                        sem |-> IF RTOS_EVT_SEMAPHORE_00 \subseteq eventVec
                                THEN @.sem - 1 ELSE @.sem]]
       IN  /\ mutexOwner' = p.owner
           /\ rtos_semaphoreAry' = p.sem
           /\ dueTaskIdAryAry' = s.due
           /\ noDueTasksAry' = s.noDue
           /\ suspendedTaskIdAry' = s.susp
           /\ noSuspendedTasks' = s.noSusp
           /\ rel' = s.rel
           /\ activeTaskId' = next
           /\ IF isNew
              THEN /\ suspendedTaskId' = activeTaskId
                   /\ rtos_taskAry' = pushRetCodeTasks(s.tasks, next)
                   /\ ret' = pushRetCodeRet(s.tasks, next, ret, s.rel)
                   /\ held' = heldOnReturn(held1, s.tasks, next)
              ELSE /\ suspendedTaskId' = suspendedTaskId
                   /\ rtos_taskAry' = s.tasks
                   /\ ret' = ret
                   /\ held' = held1
           /\ wokeUp' = [wokeUp EXCEPT ![activeTaskId] =
                           @ \cup {id \in s.released \cap Tasks :
                                      rtos_taskAry[id].prioClass
                                         > rtos_taskAry[activeTaskId].prioClass}]
           /\ lastPost' = [poster |-> activeTaskId, eventVec |-> eventVec,
                           released |-> s.released]
    /\ lastOp' = "post"
    /\ UNCHANGED << time, adjacentLayout, noTics, since, toDue, idxSuspAccess, cmd,
                    cntOverrun,
                    TIMSK2, TIMSK5, critDepth, taskStack, idxTaskInit,
                    SREG_I, pcCmd >>

\* rtos_waitForEvent(eventMask, all, timeout) with a mutex or semaphore in
\* the mask, called by the active task: a free mutex and a unit of the
\* semaphore are taken at once.  If that satisfies the resume condition the
\* call returns without suspending the task, otherwise the task is
\* suspended as by any other call of the wait service.
WaitForEventSync(eventMask, all, timeout) ==
    /\ activeTaskId \in Tasks
    /\ LET pT0    == rtos_taskAry[activeTaskId]
           takeM  == RTOS_EVT_MUTEX_00 \subseteq eventMask /\ mutexOwner = NoOwner
           takeS  == RTOS_EVT_SEMAPHORE_00 \subseteq eventMask /\ rtos_semaphoreAry > 0
           posted == pT0.postedEventVec
                        \cup (IF takeM THEN RTOS_EVT_MUTEX_00 ELSE {})
                        \cup (IF takeS THEN RTOS_EVT_SEMAPHORE_00 ELSE {})
           pT     == [pT0 EXCEPT
                        !.postedEventVec = posted,
                        !.cntDelay = delayCount(timeout),
                        !.eventMask = eventMask,
                        !.waitForAnyEvent = ~all]
           command == [kind |-> "wait", eventMask |-> eventMask,
                       all |-> all, timeout |-> timeout, cntDelay |-> pT.cntDelay,
                       onTime |-> FALSE]
       IN  /\ mutexOwner' = IF takeM THEN activeTaskId ELSE mutexOwner
           /\ rtos_semaphoreAry' = IF takeS THEN rtos_semaphoreAry - 1
                                   ELSE rtos_semaphoreAry
           /\ IF isReleased(pT)
              THEN /\ noCalls < MaxCalls
                   /\ noCalls' = noCalls + 1
                   /\ rtos_taskAry' = [rtos_taskAry EXCEPT ![activeTaskId] =
                                          [pT0 EXCEPT !.postedEventVec = {}]]
                   /\ ret' = [ret EXCEPT ![activeTaskId] =
                                 [pending |-> FALSE, released |-> TRUE,
                                  given |-> TRUE, code |-> posted]]
                   /\ rel' = [rel EXCEPT ![activeTaskId] = NoRel]
                   /\ cmd' = [cmd EXCEPT ![activeTaskId] = command]
                   /\ since' = [since EXCEPT ![activeTaskId] = 0]
                   /\ held' = heldOnReturn(held,
                                 [rtos_taskAry EXCEPT ![activeTaskId] = pT],
                                 activeTaskId)
                   /\ UNCHANGED << time, activeTaskId, suspendedTaskId,
                                   dueTaskIdAryAry, noDueTasksAry,
                                   suspendedTaskIdAry, noSuspendedTasks,
                                   adjacentLayout, noTics, idxSuspAccess,
                                   wokeUp, lastPost, cntOverrun,
                    TIMSK2, TIMSK5, critDepth, taskStack, idxTaskInit,
                    SREG_I, pcCmd >>
              ELSE suspendActive(pT, command)
    /\ UNCHANGED toDue
    /\ lastOp' = "sync"

\* The timer interrupt in the runs with mutex, semaphore and post: these
\* runs follow the clock for MaxSyncTics tics only.
TimerTicSync ==
    /\ noTics < MaxSyncTics
    /\ TimerTic

NextSync ==
    \/ TimerTicSync
    \/ \E call \in SyncWaitCalls : WaitForEventSync(call[1], call[2], call[3])
    \/ \E eventVec \in PostVecs : SetEvent(eventVec)

SpecSync == Init /\ [][NextSync]_vars

\* The runs in which idle may call a suspend command follow the clock for
\* MaxSyncTics tics.
NextIdle ==
    \/ TimerTicSync
    \/ \E deltaTimeTillRelease \in TillDeltas :
          SuspendTaskTillTime(deltaTimeTillRelease)
    \/ \E call \in WaitCalls : WaitForEvent(call[1], call[2], call[3])
    \/ \E deltaTimeTillRelease \in TillDeltas, behind \in TaskIds :
          IdleSuspendTaskTillTime(deltaTimeTillRelease, behind)
    \/ \E call \in WaitCalls, behind \in TaskIds :
          IdleWaitForEvent(call[1], call[2], call[3], behind)

SpecIdle == Init /\ [][NextIdle]_vars

(***************************************************************************)
(* rtos_enterCriticalSection and rtos_leaveCriticalSection, the macros of  *)
(* the application's configuration file, called by the running code (a     *)
(* task or idle).  The application interrupt 0 is the overflow of timer 5. *)
(***************************************************************************)
\* The model follows nested pairs up to this depth.
MaxNesting == 2

\* A leave that keeps the mask register as it finds it.
leaveTIMSK2Kept(timsk2) == timsk2

\* TIMSK2 |= _BV(TOIE2)
leaveTIMSK2(timsk2) == timsk2 \cup TOIE2

\* The statement for TIMSK5 in the leave macro is commented out.
leaveTIMSK5(timsk5) == timsk5

rtos_enterCriticalSection ==
    /\ critDepth < MaxNesting
    /\ critDepth' = critDepth + 1
    /\ TIMSK2' = TIMSK2 \ TOIE2
    /\ TIMSK5' = TIMSK5 \ TOIE5
    /\ lastOp' = "enter"
    /\ UNCHANGED << time, activeTaskId, suspendedTaskId, dueTaskIdAryAry,
                    noDueTasksAry, suspendedTaskIdAry, noSuspendedTasks,
                    rtos_taskAry, adjacentLayout, noTics, noCalls, since, toDue,
                    idxSuspAccess, cmd, rel, ret, mutexOwner, rtos_semaphoreAry,
                    held, wokeUp, lastPost, cntOverrun, taskStack,
                    idxTaskInit, SREG_I, pcCmd >>

rtos_leaveCriticalSection ==
    /\ critDepth > 0
    /\ critDepth' = critDepth - 1
    /\ TIMSK2' = leaveTIMSK2(TIMSK2)
    /\ TIMSK5' = leaveTIMSK5(TIMSK5)
    /\ lastOp' = "leave"
    /\ UNCHANGED << time, activeTaskId, suspendedTaskId, dueTaskIdAryAry,
                    noDueTasksAry, suspendedTaskIdAry, noSuspendedTasks,
                    rtos_taskAry, adjacentLayout, noTics, noCalls, since, toDue,
                    idxSuspAccess, cmd, rel, ret, mutexOwner, rtos_semaphoreAry,
                    held, wokeUp, lastPost, cntOverrun, taskStack,
                    idxTaskInit, SREG_I, pcCmd >>

\* The application calls its suspend commands outside of critical sections.
NextCrit ==
    \/ TimerTicSync
    \/ rtos_enterCriticalSection
    \/ rtos_leaveCriticalSection
    \/ \E deltaTimeTillRelease \in TillDeltas :
          critDepth = 0 /\ SuspendTaskTillTime(deltaTimeTillRelease)

SpecCrit == Init /\ [][NextCrit]_vars

(***************************************************************************)
(* Waits with an empty event mask.  rtos_waitForEvent stores the mask as   *)
(* it is given; with all = true the test of the timer tic, eventVec ==     *)
(* eventMask, holds of the empty mask with no event posted.                *)
(***************************************************************************)
\* The calls of rtos_waitForEvent of this application.
EmptyMaskCalls ==
    { <<{}, TRUE, 0>>,
      <<RTOS_EVT_DELAY_TIMER, FALSE, 0>> }

NextMask ==
    \/ TimerTic
    \/ \E call \in EmptyMaskCalls : WaitForEvent(call[1], call[2], call[3])

SpecMask == Init /\ [][NextMask]_vars

(***************************************************************************)
(* The suspend commands statement by statement.  rtos_suspendTaskTillTime  *)
(* and rtos_waitForEvent are naked functions of the same build: cli and    *)
(* PUSH_CONTEXT_WITHOUT_R24R25_ONTO_STACK, the call of the C function that *)
(* updates the lists and selects the task to return to, SWITCH_CONTEXT     *)
(* with PUSH_RET_CODE_OF_CONTEXT_SWITCH, POP_CONTEXT_FROM_STACK and reti.  *)
(* The interrupt of the system timer is served only while the global       *)
(* interrupt enable flag is set; its service routine runs with the flag    *)
(* reset by the CPU and sets it again with its own reti.                   *)
(***************************************************************************)
\* A command that starts without "cli".
cliFlagKept(flag) == flag

\* asm volatile("cli")
cliFlag(flag) == FALSE

\* cli; PUSH_CONTEXT_WITHOUT_R24R25_ONTO_STACK
CmdCli ==
    /\ pcCmd = "task"
    /\ activeTaskId \in Tasks
    /\ noCalls < MaxCalls
    /\ SREG_I' = cliFlag(SREG_I)
    /\ pcCmd' = "saved"
    /\ lastOp' = "cli"
    /\ UNCHANGED << time, activeTaskId, suspendedTaskId, dueTaskIdAryAry,
                    noDueTasksAry, suspendedTaskIdAry, noSuspendedTasks,
                    rtos_taskAry, adjacentLayout, noTics, noCalls, since, toDue,
                    idxSuspAccess, cmd, rel, ret, mutexOwner, rtos_semaphoreAry,
                    held, wokeUp, lastPost, cntOverrun, TIMSK2, TIMSK5,
                    critDepth, taskStack, idxTaskInit >>

\* The C functions suspendTaskTillTime and waitForEvent: the part the two
\* share, without the context switch that follows their return.
suspendLists(pT, command) ==
    LET prio  == pT.prioClass
        due1  == takeOutDue(dueTaskIdAryAry, noDueTasksAry, prio)
        noDue == takeOutNoDue(noDueTasksAry, prio)
    IN  /\ noCalls' = noCalls + 1
        /\ dueTaskIdAryAry' = due1
        /\ noDueTasksAry' = noDue
        /\ suspendedTaskIdAry' =
              putSuspendedAry(suspendedTaskIdAry, noSuspendedTasks, activeTaskId)
        /\ noSuspendedTasks' =
              putSuspendedNo(suspendedTaskIdAry, noSuspendedTasks, activeTaskId,
                             adjacentLayout)
        /\ idxSuspAccess' = Max(idxSuspAccess, putSuspendedIdx(noSuspendedTasks))
        /\ suspendedTaskId' = activeTaskId
        /\ activeTaskId' = selectActive(due1, noDue)
        /\ rtos_taskAry' = [rtos_taskAry EXCEPT ![activeTaskId] = pT]
        /\ rel' = [rel EXCEPT ![activeTaskId] = NoRel]
        /\ ret' = [ret EXCEPT ![activeTaskId] = NoRet]
        /\ cmd' = [cmd EXCEPT ![activeTaskId] = command]
        /\ since' = [since EXCEPT ![activeTaskId] = 0]
        /\ wokeUp' = [id \in Tasks |-> wokeUp[id] \ {activeTaskId}]
        /\ pcCmd' = "listed"
        /\ lastOp' = "lists"
        /\ UNCHANGED << time, adjacentLayout, noTics, held, lastPost, cntOverrun,
                        mutexOwner, rtos_semaphoreAry, TIMSK2, TIMSK5, critDepth,
                        taskStack, idxTaskInit, SREG_I >>

\* suspendTaskTillTime(deltaTimeTillRelease)
CmdTillTime(deltaTimeTillRelease) ==
    /\ pcCmd = "saved"
    /\ activeTaskId \in Tasks
    /\ LET pT0 == rtos_taskAry[activeTaskId]
           pT  == [pT0 EXCEPT
                     !.timeDueAt = (pT0.timeDueAt + deltaTimeTillRelease) % TimeCycle,
                     !.eventMask = RTOS_EVT_ABSOLUTE_TIMER,
                     !.waitForAnyEvent = TRUE]
       IN  /\ suspendLists(pT,
                 [kind |-> "till", eventMask |-> RTOS_EVT_ABSOLUTE_TIMER,
                  all |-> FALSE, timeout |-> deltaTimeTillRelease,
                  cntDelay |-> pT.cntDelay,
                  onTime |-> cmd[activeTaskId].onTime
                             /\ toDueAdd(toDue[activeTaskId], deltaTimeTillRelease)
                                   \in 1 .. TimeMax])
           /\ toDue' = [toDue EXCEPT ![activeTaskId] =
                           toDueAdd(toDue[activeTaskId], deltaTimeTillRelease)]

\* waitForEvent(eventMask, all, timeout)
CmdWait(eventMask, all, timeout) ==
    /\ pcCmd = "saved"
    /\ activeTaskId \in Tasks
    /\ LET pT0 == rtos_taskAry[activeTaskId]
           pT  == [pT0 EXCEPT
                     !.cntDelay = delayCount(timeout),
                     !.eventMask = eventMaskStored(eventMask, timeout),
                     !.waitForAnyEvent = ~all]
       IN  suspendLists(pT,
              [kind |-> "wait", eventMask |-> eventMask,
               all |-> all, timeout |-> timeout, cntDelay |-> pT.cntDelay,
               onTime |-> FALSE])
    /\ UNCHANGED toDue

\* SWITCH_CONTEXT and PUSH_RET_CODE_OF_CONTEXT_SWITCH behind the call.
CmdSwitch ==
    /\ pcCmd = "listed"
    /\ rtos_taskAry' = pushRetCodeTasks(rtos_taskAry, activeTaskId)
    /\ ret' = pushRetCodeRet(rtos_taskAry, activeTaskId, ret, rel)
    /\ held' = heldOnReturn(held, rtos_taskAry, activeTaskId)
    /\ pcCmd' = "switched"
    /\ lastOp' = "switch"
    /\ UNCHANGED << time, activeTaskId, suspendedTaskId, dueTaskIdAryAry,
                    noDueTasksAry, suspendedTaskIdAry, noSuspendedTasks,
                    adjacentLayout, noTics, noCalls, since, toDue,
                    idxSuspAccess, cmd, rel, mutexOwner, rtos_semaphoreAry,
                    wokeUp, lastPost, cntOverrun, TIMSK2, TIMSK5,
                    critDepth, taskStack, idxTaskInit, SREG_I >>

\* POP_CONTEXT_FROM_STACK and reti: the flag is set on the way into the task.
CmdReti ==
    /\ pcCmd = "switched"
    /\ SREG_I' = TRUE
    /\ pcCmd' = "task"
    /\ lastOp' = "reti"
    /\ UNCHANGED << time, activeTaskId, suspendedTaskId, dueTaskIdAryAry,
                    noDueTasksAry, suspendedTaskIdAry, noSuspendedTasks,
                    rtos_taskAry, adjacentLayout, noTics, noCalls, since, toDue,
                    idxSuspAccess, cmd, rel, ret, mutexOwner, rtos_semaphoreAry,
                    held, wokeUp, lastPost, cntOverrun, TIMSK2, TIMSK5,
                    critDepth, taskStack, idxTaskInit >>

NextSteps ==
    \/ TimerTicSync
    \/ CmdCli
    \/ \E deltaTimeTillRelease \in TillDeltas : CmdTillTime(deltaTimeTillRelease)
    \/ \E call \in EmptyMaskCalls : CmdWait(call[1], call[2], call[3])
    \/ CmdSwitch
    \/ CmdReti

SpecSteps == Init /\ [][NextSteps]_vars

(***************************************************************************)
(* Type correctness.                                                       *)
(***************************************************************************)
TypeOK ==
    /\ time \in 0 .. TimeMax
    /\ activeTaskId \in TaskIds
    /\ suspendedTaskId \in TaskIds
    /\ noSuspendedTasks \in 0 .. RTOS_NO_TASKS
    /\ \A p \in PrioClasses : noDueTasksAry[p] \in 0 .. RTOS_MAX_NO_TASKS_IN_PRIO_CLASS
    /\ \A i \in Tasks : suspendedTaskIdAry[i] \in Tasks
    /\ \A id \in TaskIds :
          /\ rtos_taskAry[id].timeDueAt \in 0 .. TimeMax
          /\ rtos_taskAry[id].cntDelay \in 0 .. TimeMax
          /\ rtos_taskAry[id].postedEventVec \in EventVecs

(***************************************************************************)
(* Views of the task lists.                                                *)
(***************************************************************************)
\* The slots of the lists of due tasks that are in use.
DueSlots ==
    {sl \in PrioClasses \X (0 .. (RTOS_MAX_NO_TASKS_IN_PRIO_CLASS - 1)) :
        sl[2] < noDueTasksAry[sl[1]]}

\* The slots of the list of suspended tasks that are in use.
SuspSlots == {i \in Tasks : i < noSuspendedTasks}

dueOcc(id) == Cardinality({sl \in DueSlots : dueTaskIdAryAry[sl[1]][sl[2]] = id})

suspOcc(id) == Cardinality({i \in SuspSlots : suspendedTaskIdAry[i] = id})

\* The three task states.  The active task stays at the head of the list of
\* due tasks of its class; a ready task is a due task that is not active.
isActive(id) == id = activeTaskId

isReady(id) == id # activeTaskId /\ dueOcc(id) > 0

isSuspended(id) == suspOcc(id) > 0

(***************************************************************************)
(* C1: At all times every task other than idle is in exactly one of the    *)
(* states active, ready or suspended; no task is missing from all of them, *)
(* none is in two of them and none is listed twice.                        *)
(***************************************************************************)
C1_ExactlyOneState ==
    \A id \in Tasks :
        /\ isActive(id) \/ isReady(id) \/ isSuspended(id)
        /\ dueOcc(id) + suspOcc(id) <= 1
        /\ ~(isActive(id) /\ isReady(id))
        /\ ~(isActive(id) /\ isSuspended(id))
        /\ ~(isReady(id) /\ isSuspended(id))

(***************************************************************************)
(* C2: After every operation the active task is the first entry of the     *)
(* list of due tasks of the highest priority class that is not empty, and  *)
(* the active task is idle exactly when all these lists are empty.         *)
(***************************************************************************)
C2_ActiveIsHeadOfHighestClass ==
    /\ (activeTaskId = IDLE_TASK_ID) <=> (\A p \in PrioClasses : noDueTasksAry[p] = 0)
    /\ \A p \in PrioClasses :
          (noDueTasksAry[p] > 0 /\ \A q \in PrioClasses : q > p => noDueTasksAry[q] = 0)
             => activeTaskId = dueTaskIdAryAry[p][0]

\* A timer tic has left tasks due in two classes; the head of the higher
\* class runs.
C2_Witness ==
    /\ lastOp = "tic"
    /\ \E p, q \in PrioClasses :
          /\ p < q
          /\ noDueTasksAry[p] > 0
          /\ noDueTasksAry[q] > 0
          /\ activeTaskId = dueTaskIdAryAry[q][0]
          /\ activeTaskId # dueTaskIdAryAry[p][0]

(***************************************************************************)
(* C3: After a timer tic no task that is left in the list of suspended     *)
(* tasks has a satisfied wake-up condition, i.e. posted events that meet   *)
(* its event mask under its any/all rule.                                  *)
(***************************************************************************)
C3_NoSatisfiedTaskLeftSuspended ==
    lastOp = "tic" =>
        \A i \in SuspSlots :
            LET pT == rtos_taskAry[suspendedTaskIdAry[i]]
            IN  /\ pT.waitForAnyEvent => pT.postedEventVec \cap pT.eventMask = {}
                /\ ~pT.waitForAnyEvent => ~(pT.eventMask \subseteq pT.postedEventVec)

(***************************************************************************)
(* C4: The number of entries of the list of suspended tasks never exceeds  *)
(* RTOS_NO_TASKS, and no access to the list uses an index beyond its       *)
(* RTOS_NO_TASKS slots.                                                    *)
(***************************************************************************)
C4_SuspendedListInBounds ==
    /\ noSuspendedTasks <= RTOS_NO_TASKS
    /\ idxSuspAccess <= RTOS_NO_TASKS - 1

(***************************************************************************)
(* C5: For every priority class the count of due tasks is at most          *)
(* RTOS_MAX_NO_TASKS_IN_PRIO_CLASS and equals the number of tasks the list *)
(* of the class holds.                                                     *)
(***************************************************************************)
C5_DueCountIsNumberOfTasks ==
    \A p \in PrioClasses :
        /\ noDueTasksAry[p] <= RTOS_MAX_NO_TASKS_IN_PRIO_CLASS
        /\ noDueTasksAry[p] =
              Cardinality({id \in Tasks : \E sl \in DueSlots :
                              sl[1] = p /\ dueTaskIdAryAry[p][sl[2]] = id})

(***************************************************************************)
(* C6: A task that calls rtos_suspendTaskTillTime time after time, each    *)
(* call made before the tic of its new due time and less than a time cycle *)
(* ahead of it, is released in the timer tic that makes the system time    *)
(* equal to that due time: not earlier, not later, and it does not resume  *)
(* without that release.                                                   *)
(***************************************************************************)
C6_ReleasedAtDueTime ==
    \A id \in Tasks :
        (cmd[id].kind = "till" /\ cmd[id].onTime) =>
            IF rel[id].released
            THEN rel[id].toDue = 0
            ELSE toDue[id] >= 1 /\ ret[id].pending

(***************************************************************************)
(* C7: A wait with the delay timer event in its mask and timeout n loads   *)
(* the delay counter with n+1, and a release of that wait by the delay     *)
(* event happens in the (n+1)-th timer tic after the call.                 *)
(***************************************************************************)
C7_DelayCountsTimeoutPlusOne ==
    \A id \in Tasks :
        (cmd[id].kind = "wait" /\ RTOS_EVT_DELAY_TIMER \subseteq cmd[id].eventMask) =>
            /\ cmd[id].cntDelay = cmd[id].timeout + 1
            /\ (rel[id].released /\ RTOS_EVT_DELAY_TIMER \subseteq rel[id].eventVec)
                  => rel[id].after = cmd[id].timeout + 1

(***************************************************************************)
(* C8: A task that is released from rtos_waitForEvent by the delay timer    *)
(* event alone, none of the other events of its mask being posted, and     *)
(* then resumes gets a return value that holds the delay timer event and   *)
(* no other bit.  Stated for the runs in which every access to the list of *)
(* suspended tasks has stayed inside the array.                            *)
(***************************************************************************)
C8_TimeoutReturnsDelayEventOnly ==
    \A id \in Tasks :
        ( /\ idxSuspAccess < RTOS_NO_TASKS
          /\ cmd[id].kind = "wait"
          /\ rel[id].released
          /\ rel[id].eventVec = RTOS_EVT_DELAY_TIMER
          /\ ~ret[id].pending
          /\ ret[id].released )
            => (ret[id].given /\ ret[id].code = RTOS_EVT_DELAY_TIMER)

(***************************************************************************)
(* C9: A task that is released from rtos_suspendTaskTillTime and resumes    *)
(* gets the return value RTOS_EVT_ABSOLUTE_TIMER, the absolute timer bit   *)
(* and no other, whatever commands it has called before.  Stated for the   *)
(* runs in which every access to the list of suspended tasks has stayed    *)
(* inside the array.                                                       *)
(***************************************************************************)
C9_TillTimeReturnsAbsoluteTimerOnly ==
    \A id \in Tasks :
        ( /\ idxSuspAccess < RTOS_NO_TASKS
          /\ cmd[id].kind = "till"
          /\ ~ret[id].pending
          /\ ret[id].released )
            => (ret[id].given /\ ret[id].code = RTOS_EVT_ABSOLUTE_TIMER)

(***************************************************************************)
(* C10: rtos_waitForEvent(RTOS_EVT_DELAY_TIMER, all=false, timeout=0)      *)
(* suspends the caller, so that another task or idle runs; the next timer  *)
(* tic releases the caller; and the call returns RTOS_EVT_DELAY_TIMER and  *)
(* no other bit.                                                           *)
(***************************************************************************)
C10_DelayZeroTillNextTic ==
    \A id \in Tasks :
        ( /\ cmd[id].kind = "wait"
          /\ cmd[id].eventMask = RTOS_EVT_DELAY_TIMER
          /\ cmd[id].timeout = 0 )
            => /\ (lastOp = "wait" /\ suspendedTaskId = id) => activeTaskId # id
               /\ since[id] >= 1 => (rel[id].released /\ rel[id].after = 1)
               /\ (~ret[id].pending /\ ret[id].released) =>
                     (ret[id].given /\ ret[id].code = RTOS_EVT_DELAY_TIMER)

(***************************************************************************)
(* C11: whenever a task calls the wait service with the absolute timer bit *)
(* in its mask, its timeDueAt is advanced by the timeout argument relative *)
(* to its previous value, modulo the time cycle.                           *)
(***************************************************************************)
C11_WaitAdvancesDueTime ==
    [][ (lastOp' = "wait" /\ activeTaskId \in Tasks
            /\ cmd'[activeTaskId].eventMask \cap RTOS_EVT_ABSOLUTE_TIMER # {})
        => rtos_taskAry'[activeTaskId].timeDueAt
              = (rtos_taskAry[activeTaskId].timeDueAt
                    + cmd'[activeTaskId].timeout) % TimeCycle ]_vars

(***************************************************************************)
(* C12: the system time is 0 during the first tick service, and a task     *)
(* configured with the initial due time d is released in the (d+1)-th tick *)
(* after start (for d = 0 in the very first tick), never earlier.          *)
(***************************************************************************)
C12_InitialDueTime ==
    /\ noTics = 1 => time = 0
    /\ \A id \in Tasks :
          cmd[id].kind = "start" =>
             /\ rel[id].released
                   => rel[id].after = rtos_taskAry[id].timeDueAt + 1
             /\ noTics >= rtos_taskAry[id].timeDueAt + 1 => rel[id].released

startedNow ==
    {id \in Tasks : cmd[id].kind = "start" /\ rtos_taskAry[id].timeDueAt = time}

C14_SameInitialDueTime ==
    (lastOp = "tic" /\ noTics = time + 1 /\ Cardinality(startedNow) >= 2)
       => LET top   == CHOOSE p \in PrioClasses :
                          /\ \E id \in startedNow : rtos_taskAry[id].prioClass = p
                          /\ \A id \in startedNow : rtos_taskAry[id].prioClass <= p
              first == CHOOSE id \in startedNow :
                          /\ rtos_taskAry[id].prioClass = top
                          /\ \A id2 \in startedNow :
                                rtos_taskAry[id2].prioClass = top => id <= id2
          IN  /\ \A id \in startedNow : dueOcc(id) = 1
              /\ (\A id \in Tasks \ startedNow :
                     dueOcc(id) > 0 => rtos_taskAry[id].prioClass < top)
                    => activeTaskId = first

(***************************************************************************)
(* C15: tasks of the same priority class become active in the order in     *)
(* which they were released into the list of due tasks: a task released    *)
(* earlier is activated before a task of the same class released later.    *)
(***************************************************************************)
C15_ActivationInReleaseOrder ==
    \A a, b \in Tasks :
       ( /\ a # b
         /\ rtos_taskAry[a].prioClass = rtos_taskAry[b].prioClass
         /\ rel[a].released /\ rel[b].released
         /\ rel[a].order < rel[b].order
         /\ ~ret[b].pending /\ ret[b].released )
       => (~ret[a].pending /\ ret[a].released)

\* Two tasks of a class released one after the other: the first one has
\* been activated, the second one is ready and waits for its turn.
C15_Witness ==
    \E a, b \in Tasks :
       /\ a # b
       /\ rtos_taskAry[a].prioClass = rtos_taskAry[b].prioClass
       /\ rel[a].released /\ rel[b].released
       /\ rel[a].order < rel[b].order
       /\ ~ret[a].pending /\ ret[a].released /\ activeTaskId = a
       /\ ret[b].pending /\ isReady(b)

(***************************************************************************)
(* C16: when a task posts an event that releases a suspended task of       *)
(* strictly higher priority, the released task runs up to its next         *)
(* suspension before the post call returns to the poster; when the         *)
(* released task has the same or a lower priority, the poster continues    *)
(* without yielding.                                                       *)
(***************************************************************************)
C16_PostYieldsToHigherPriorityOnly ==
    /\ \A id \in Tasks : activeTaskId = id => wokeUp[id] = {}
    /\ ( /\ lastOp = "post"
         /\ lastPost.released # {}
         /\ \A id \in lastPost.released :
               rtos_taskAry[id].prioClass
                  <= rtos_taskAry[lastPost.poster].prioClass )
       => activeTaskId = lastPost.poster

\* A post has released a task of higher priority, which is active now.
C16_WitnessYield ==
    /\ lastOp = "post"
    /\ \E id \in lastPost.released :
          /\ rtos_taskAry[id].prioClass > rtos_taskAry[lastPost.poster].prioClass
          /\ activeTaskId = id
          /\ id \in wokeUp[lastPost.poster]

\* A post has released a task of the same priority; the poster goes on.
C16_WitnessNoYield ==
    /\ lastOp = "post"
    /\ lastPost.released # {}
    /\ \A id \in lastPost.released :
          rtos_taskAry[id].prioClass = rtos_taskAry[lastPost.poster].prioClass
    /\ activeTaskId = lastPost.poster

(***************************************************************************)
(* C17: posting a mutex bit hands the mutex to exactly one waiting task;   *)
(* at no time do two tasks hold the same mutex.  A task holds the mutex    *)
(* from the moment its wait returns with the mutex bit set until it posts  *)
(* the bit.                                                                *)
(***************************************************************************)
\* The tasks that hold the mutex or have got it with their release.
mutexHolders ==
    {id \in Tasks :
        \/ held[id].mtx
        \/ RTOS_EVT_MUTEX_00 \subseteq rtos_taskAry[id].postedEventVec}

RECURSIVE unitsAcquired(_)
unitsAcquired(id) ==
    IF id = 0 THEN 0
    ELSE unitsAcquired(id - 1) + held[id - 1].sem
            + (IF RTOS_EVT_SEMAPHORE_00 \subseteq rtos_taskAry[id - 1].postedEventVec
               THEN 1 ELSE 0)

C19_LateCallCountsOverrun ==
    [][ ( /\ lastOp' = "till"
          /\ activeTaskId \in Tasks
          /\ toDue'[activeTaskId] < 0
          /\ 2 * toDue'[activeTaskId] > 0 - TimeCycle )
        => cntOverrun'[activeTaskId] = cntOverrun[activeTaskId] + 1 ]_vars

(***************************************************************************)
(* C20: with round robin enabled, when the round robin counter of the      *)
(* active task reaches zero in a timer tic, the task is moved from the     *)
(* head to the tail of the list of due tasks of its priority class and the *)
(* next task of that class becomes active.  The counter of a task with a   *)
(* time slice of one tic, loaded on activation, reaches zero in the first  *)
(* tic after the task has been switched to.                                *)
(***************************************************************************)
C20_RoundRobinRotates ==
    [][ ( /\ lastOp \in {"till", "wait"}
          /\ lastOp' = "tic"
          /\ activeTaskId \in Tasks
          /\ activeTaskId # suspendedTaskId
          /\ rtos_taskAry[activeTaskId].timeRoundRobin = 1
          /\ noDueTasksAry[rtos_taskAry[activeTaskId].prioClass] >= 2
          /\ dueTaskIdAryAry[rtos_taskAry[activeTaskId].prioClass][0] = activeTaskId
          /\ dueTaskIdAryAry[rtos_taskAry[activeTaskId].prioClass][1] # activeTaskId
          /\ \A p \in PrioClasses :
                p > rtos_taskAry[activeTaskId].prioClass => noDueTasksAry'[p] = 0 )
        => LET c == rtos_taskAry[activeTaskId].prioClass
           IN  /\ activeTaskId' = dueTaskIdAryAry[c][1]
               /\ dueTaskIdAryAry'[c][noDueTasksAry'[c] - 1] = activeTaskId ]_vars

(***************************************************************************)
(* C21: a task that waits for all events of a set together with a timeout  *)
(* is released when the timeout elapses, i.e. when its delay counter has   *)
(* run down to zero, although the other events of the set have not all     *)
(* arrived; the wait then returns the delay timer bit and no other.        *)
(***************************************************************************)
C21_TimeoutEndsWaitForAll ==
    \A id \in Tasks :
        ( /\ cmd[id].kind = "wait"
          /\ cmd[id].all
          /\ RTOS_EVT_DELAY_TIMER \subseteq cmd[id].eventMask
          /\ cmd[id].eventMask # RTOS_EVT_DELAY_TIMER
          /\ since[id] >= 1
          /\ rtos_taskAry[id].cntDelay = 0 )
            => /\ rel[id].released
               /\ (~ret[id].pending /\ ret[id].released)
                     => (ret[id].given /\ ret[id].code = RTOS_EVT_DELAY_TIMER)

C23_IdleSuspendIsStopped ==
    [][ lastOp' \in {"till", "wait"} => activeTaskId # IDLE_TASK_ID ]_vars

(***************************************************************************)
(* C24: nested use of the pair rtos_enterCriticalSection and               *)
(* rtos_leaveCriticalSection restores the prior state of the interrupt     *)
(* masks: after the inner leave inside an outer pair the interrupts that   *)
(* can cause a task switch stay masked until the outer leave.              *)
(***************************************************************************)
C24_NestedPairsKeepMask ==
    critDepth > 0 => (TIMSK2 \cap TOIE2 = {} /\ TIMSK5 \cap TOIE5 = {})

(***************************************************************************)
(* C24, amended: the pair does not save the state of the interrupt masks   *)
(* and cannot be nested.  Every enter masks the interrupts that can cause  *)
(* a task switch; every leave, the inner one of a nested pair too, enables *)
(* the system timer interrupt again, so that inside an outer pair the      *)
(* timer interrupt is masked up to the first leave only and a timer tic is *)
(* served whenever the last call was not an enter.                         *)
(***************************************************************************)
C24_LeaveAlwaysEnablesTimerTic ==
    /\ lastOp = "enter" => (TIMSK2 \cap TOIE2 = {} /\ TIMSK5 \cap TOIE5 = {})
    /\ lastOp = "leave" => TOIE2 \subseteq TIMSK2
    /\ lastOp = "tic" => TOIE2 \subseteq TIMSK2
    /\ (TIMSK2 \cap TOIE2 = {}) => critDepth > 0

\* A timer tic has been served inside the outer pair, after the inner
\* leave, and has switched to another task.
C24_Witness ==
    /\ critDepth = MaxNesting - 1
    /\ critDepth > 0
    /\ lastOp = "tic"
    /\ activeTaskId # suspendedTaskId
    /\ activeTaskId \in Tasks
    /\ rel[activeTaskId].after = 1

(***************************************************************************)
(* C25: after initialization every byte of a task's stack area that is not *)
(* part of the initial context holds the pattern 0x29, for every stack     *)
(* size that can hold the initial context.                                 *)
(***************************************************************************)
C25_UnusedStackHoldsPattern ==
    \A id \in Tasks :
        id < idxTaskInit =>
            \A i \in 0 .. (taskStack[id].stackSize - 1) :
                i < taskStack[id].stackSize - Len(initialContext(0))
                   => taskStack[id].area[i] = UNUSED_STACK_PATTERN

\* rtos_initRTOS is through; a stack area that did not hold the pattern
\* before has room left below the initial context and the bytes of the
\* program counter of the task function are in their places.
C25_Witness ==
    /\ idxTaskInit = RTOS_NO_TASKS + 1
    /\ lastOp = "init"
    /\ \E id \in Tasks :
          /\ taskStack[id].stackSize = Len(initialContext(0)) + MaxSpare
          /\ taskStack[id].stackPointer = MaxSpare - 1
          /\ taskStack[id].area[taskStack[id].stackSize - 4]
                = taskStack[id].taskFunction % 256
          /\ taskStack[id].area[0] = UNUSED_STACK_PATTERN

\* The state rtos_initRTOS ends in is the initial state of the scheduler.
InitReached == idxTaskInit = RTOS_NO_TASKS + 1 /\ Init

(***************************************************************************)
(* C26: while no task is ready and none becomes ready, every timer tic is  *)
(* served and returns without asking for a context switch, and the idle    *)
(* task stays the active task.                                             *)
(***************************************************************************)
C26_IdleOnlyTicDoesNotSwitch ==
    [][ ( /\ lastOp' = "tic"
          /\ activeTaskId = IDLE_TASK_ID
          /\ \A p \in PrioClasses : noDueTasksAry[p] = 0
          /\ \A p \in PrioClasses : noDueTasksAry'[p] = 0 )
        => /\ time' = (time + 1) % TimeCycle
           /\ activeTaskId' = IDLE_TASK_ID
           /\ suspendedTaskId' = suspendedTaskId
           /\ ret' = ret
           /\ rtos_taskAry'[IDLE_TASK_ID] = rtos_taskAry[IDLE_TASK_ID] ]_vars

\* Idle is active since a task has suspended itself, and a timer tic that
\* released nobody has been served.
C26_Witness ==
    /\ lastOp = "tic"
    /\ activeTaskId = IDLE_TASK_ID
    /\ suspendedTaskId \in Tasks
    /\ noCalls > 0
    /\ \A p \in PrioClasses : noDueTasksAry[p] = 0
    /\ since[suspendedTaskId] >= 1

(***************************************************************************)
(* C27: a timer tic moves a task from the list of suspended tasks to a     *)
(* list of due tasks only if the release condition of the task holds: with *)
(* eff = posted events AND wait mask, eff is the whole mask in wait-all    *)
(* mode and eff is not empty in wait-any mode.  The posted events are      *)
(* those the task had plus the timer events of this tic.                   *)
(***************************************************************************)
C27_ReleaseOnlyOnCondition ==
    [][ lastOp' = "tic" =>
          LET tasks == onTimerTic.tasks
          IN  \A id \in Tasks :
                dueOcc(id)' > dueOcc(id) =>
                  LET pT  == tasks[id]
                      old == rtos_taskAry[id]
                      eff == pT.postedEventVec \cap old.eventMask
                  IN  /\ pT.eventMask = old.eventMask
                      /\ pT.waitForAnyEvent = old.waitForAnyEvent
                      /\ pT.postedEventVec \subseteq
                            old.postedEventVec
                            \cup (IF time' = old.timeDueAt
                                  THEN RTOS_EVT_ABSOLUTE_TIMER ELSE {})
                            \cup (IF old.cntDelay > 0
                                  THEN RTOS_EVT_DELAY_TIMER ELSE {})
                      /\ old.waitForAnyEvent => eff # {}
                      /\ ~old.waitForAnyEvent => eff = old.eventMask ]_vars

\* A task that waits for any event of its mask has been released by the timer
\* tic just served, on the delay event alone, and is ready or active now.
C27_Witness ==
    \E id \in Tasks :
        /\ lastOp = "tic"
        /\ cmd[id].kind = "wait" /\ ~cmd[id].all
        /\ rel[id].released /\ rel[id].after >= 1
        /\ rel[id].eventVec = RTOS_EVT_DELAY_TIMER
        /\ rtos_taskAry[id].cntDelay = 0
        /\ dueOcc(id) > 0

(***************************************************************************)
(* C28: a timer tic inspects every task that is in the list of suspended   *)
(* tasks when the tic begins exactly once, whatever other tasks the tic    *)
(* releases: the delay counter of the task goes down by one if it was      *)
(* positive, and the absolute-timer event is posted to the task if the new *)
(* time is its timeDueAt (a task switched in by this tic has got the       *)
(* posted events as its return code already).                              *)
(***************************************************************************)
C28_EverySuspendedTaskInspectedOnce ==
    [][ lastOp' = "tic" =>
          \A id \in Tasks :
              isSuspended(id) =>
                  /\ rtos_taskAry'[id].cntDelay =
                        IF rtos_taskAry[id].cntDelay > 0
                        THEN rtos_taskAry[id].cntDelay - 1
                        ELSE 0
                  /\ time' = rtos_taskAry[id].timeDueAt =>
                        \/ RTOS_EVT_ABSOLUTE_TIMER
                              \subseteq rtos_taskAry'[id].postedEventVec
                        \/ activeTaskId' = id ]_vars

(***************************************************************************)
(* C29: a task suspended by rtos_suspendTaskTillTime is released at the    *)
(* latest one full cycle of the system time (TimeCycle timer tics) after   *)
(* the call, whatever the other tasks do in between.                       *)
(***************************************************************************)
C29_TillTimeReleasedWithinCycle ==
    \A id \in Tasks :
        (cmd[id].kind = "till" /\ since[id] >= TimeCycle) => rel[id].released

(***************************************************************************)
(* C30: whenever a task is switched in, a return code is pushed onto its   *)
(* stack exactly if its context was saved by a suspend command or made by  *)
(* the stack initialization (a context without r24/r25), and not if the    *)
(* task was preempted by the timer tic (a full context); this holds for    *)
(* every wait mask, the empty mask in wait-all mode included.              *)
(***************************************************************************)
C30_ReturnCodePushedIffContextWithoutR24R25 ==
    [][ \A id \in Tasks :
          ( /\ activeTaskId' = id
            /\ \/ lastOp' \in {"till", "wait"}
               \/ lastOp' = "tic" /\ activeTaskId # id )
          => IF ret[id].pending \/ (lastOp' \in {"till", "wait"} /\ activeTaskId = id)
             THEN ret'[id].given
             ELSE IF lastOp' = "tic"
                  THEN onTimerTic.tasks[id].postedEventVec = {}
                  ELSE rtos_taskAry[id].postedEventVec = {} ]_vars

(***************************************************************************)
(* C31: timer events are per task.  A timer tic posts the delay-timer      *)
(* event only to a suspended task whose own delay counter has just reached *)
(* zero and the absolute-timer event only to a suspended task whose own    *)
(* timeDueAt is the new time; it posts no other event, and it leaves the   *)
(* posted events of every ready or active task and of every other          *)
(* suspended task as they are.  (The posted events are those at the end of *)
(* the loop over the suspended tasks, before the return code is handed to  *)
(* the task switched in.)                                                  *)
(***************************************************************************)
C31_TimerEventsArePerTask ==
    [][ lastOp' = "tic" =>
          LET tasks == onTimerTic.tasks
          IN  \A id \in Tasks :
                LET old   == rtos_taskAry[id]
                    new   == tasks[id]
                    added == new.postedEventVec \ old.postedEventVec
                IN  /\ old.postedEventVec \subseteq new.postedEventVec
                    /\ added \subseteq RTOS_EVT_DELAY_TIMER \cup RTOS_EVT_ABSOLUTE_TIMER
                    /\ RTOS_EVT_DELAY_TIMER \subseteq added =>
                          /\ isSuspended(id) /\ dueOcc(id) = 0
                          /\ old.cntDelay > 0 /\ new.cntDelay = 0
                    /\ RTOS_EVT_ABSOLUTE_TIMER \subseteq added =>
                          /\ isSuspended(id) /\ dueOcc(id) = 0
                          /\ time' = old.timeDueAt
                    /\ dueOcc(id) > 0 => added = {} ]_vars

C33_RunningTaskHasNoPostedEvent ==
    [][ /\ (lastOp' = "wait" /\ activeTaskId \in Tasks) =>
              \/ rtos_taskAry'[activeTaskId].postedEventVec
                    = rtos_taskAry[activeTaskId].postedEventVec
              \/ /\ activeTaskId' = activeTaskId
                 /\ ~ret'[activeTaskId].pending /\ ret'[activeTaskId].given
                 /\ rtos_taskAry'[activeTaskId].postedEventVec = {}
        /\ \A id \in Tasks :
              (dueOcc(id)' > 0 /\ ~ret'[id].pending) =>
                  rtos_taskAry'[id].postedEventVec = {} ]_vars

(***************************************************************************)
(* C34: a call of rtos_waitForEvent or rtos_suspendTaskTillTime takes      *)
(* exactly the calling task out of the list of due tasks of its class,     *)
(* keeps the order of the entries that remain, and adds exactly the        *)
(* calling task to the list of suspended tasks; no other task changes its  *)
(* lists.                                                                  *)
(***************************************************************************)
C34_SuspendMovesExactlyTheCaller ==
    [][ (lastOp' \in {"till", "wait"} /\ activeTaskId \in Tasks) =>
          LET caller == activeTaskId
              prio   == rtos_taskAry[caller].prioClass
              old(p) == [i \in 1 .. noDueTasksAry[p] |-> dueTaskIdAryAry[p][i - 1]]
              new(p) == [i \in 1 .. noDueTasksAry'[p] |-> dueTaskIdAryAry'[p][i - 1]]
              at     == {k \in 1 .. Len(old(prio)) : old(prio)[k] = caller}
              first  == CHOOSE k \in at : \A l \in at : k <= l
          IN  /\ at # {}
              /\ new(prio) = SubSeq(old(prio), 1, first - 1)
                                \o SubSeq(old(prio), first + 1, Len(old(prio)))
              /\ \A p \in PrioClasses : p # prio => new(p) = old(p)
              /\ \A id \in Tasks :
                    suspOcc(id)' = suspOcc(id) + (IF id = caller THEN 1 ELSE 0) ]_vars

(***************************************************************************)
(* C35: the updates of the scheduler state by rtos_waitForEvent and by     *)
(* rtos_suspendTaskTillTime are atomic with respect to the timer tic: no   *)
(* timer tic is served between the change of the lists of due and          *)
(* suspended tasks made by the call and the end of its context switch.     *)
(***************************************************************************)
C35_NoTicInsideSuspendCommand ==
    [][ lastOp' = "tic" => pcCmd # "listed" ]_vars

\* A suspend command has changed the lists and has not yet switched the
\* context; the interrupt of the system timer is enabled in its mask register
\* and is held off by the global flag alone.
C35_Witness ==
    /\ pcCmd = "listed"
    /\ ~SREG_I
    /\ TOIE2 \subseteq TIMSK2
    /\ noTics >= 1 /\ noTics < MaxSyncTics
    /\ suspendedTaskId \in Tasks
    /\ activeTaskId # suspendedTaskId
    /\ ret[suspendedTaskId].pending

C37_RemovalKeepsTheOtherTasks ==
    [][ (lastOp' = "tic" /\ \A id \in Tasks : suspOcc(id) <= 1) =>
          \A id \in Tasks :
              LET released == dueOcc(id)' - dueOcc(id)
              IN  /\ released \in {0, 1}
                  /\ suspOcc(id)' = suspOcc(id) - released ]_vars

(***************************************************************************)
(* C38: at every context switch (the one of a suspend command and the one  *)
(* of a timer tic that reports a new active task) the stack pointer of the *)
(* task that is left is stored in the descriptor of exactly that task, the *)
(* stack pointer loaded is the one held by the descriptor of the new       *)
(* active task, and the task left and the new active task are two          *)
(* different tasks.  Before the switch every descriptor holds the stack    *)
(* pointer saved for (or seeded into) its task, and the CPU is on the      *)
(* stack of the task left.                                                 *)
(***************************************************************************)
C38_SwitchSavesLeftAndLoadsOtherTask ==
    [][ ( \/ lastOp' \in {"till", "wait"}
          \/ lastOp' = "tic" /\ onTimerTic.isNew ) =>
          LET left  == activeTaskId
              saved == [id \in TaskIds |-> << "saved", id >>]
              r     == SWITCH_CONTEXT(saved, << "current", left >>,
                                      activeTaskId', suspendedTaskId')
          IN  /\ r.stackPointer[left] = << "current", left >>
              /\ \A id \in TaskIds : id # left => r.stackPointer[id] = saved[id]
              /\ r.SP = saved[activeTaskId']
              /\ activeTaskId' # left ]_vars

====
